---- MODULE Spec2Model ----
(***************************************************************************)
(* Disjunctive frequent itemset mining over an FP tree (src/main.py).      *)
(*                                                                         *)
(* The model follows one run of the program's main block: the dataset is   *)
(* read, filterTransactions derives the items order and re-orders every    *)
(* transaction, buildFPTree inserts the transactions one by one into an    *)
(* FPTree, and findFrequentItemsets walks the itemset lattice with         *)
(* generateItemsets, asking findSupportByPrefixPath for the support of     *)
(* every candidate.  The recursion of generateItemsets is kept as an       *)
(* explicit stack of frames, one step per iteration of its while loop.     *)
(* Once the run is over the tree stays available for support queries.      *)
(*                                                                         *)
(* Items are the integers 1..NumItems (a=1, b=2, c=3).  Python lists are   *)
(* sequences; the indices i, start, end and depth of generateItemsets and  *)
(* the index i of checkPath keep their 0-based Python values, so position  *)
(* i of a list is element i+1 of the sequence.  Nodes live in an arena     *)
(* indexed by nodeID (0 is the root); a reference to a node is its nodeID. *)
(***************************************************************************)
EXTENDS Integers, Sequences, FiniteSets, TLC

\* ------------------------------------------------------------------ bounds
NumItems == 3
MaxTrans == 3

Items == 1..NumItems

\* Python's None, for a missing node reference, item or count.
None == -1

VARIABLES
    pc,               \* position in the main block
    transactions,     \* the dataset as returned by processDataset
    minSupp,          \* argument minSupp of findFrequentItemsets
    transactionsNew,  \* first result of filterTransactions
    itemsOrder,       \* second result of filterTransactions
    tree,             \* the FPTree under construction / built
    inserted,         \* number of transactions buildFPTree has inserted
    freqItemsets,     \* result list of findFrequentItemsets
    stack,            \* frames of the active generateItemsets calls
    query             \* last direct call of findSupportByPrefixPath

vars == <<pc, transactions, minSupp, transactionsNew, itemsOrder, tree,
          inserted, freqItemsets, stack, query>>

\* ------------------------------------------------------------- sequences
Range(s) == {s[k] : k \in 1..Len(s)}

RECURSIVE Sum(_, _)
\* Sum of f[x] over the finite set S.
Sum(f, S) == IF S = {} THEN 0
             ELSE LET x == CHOOSE y \in S : TRUE IN f[x] + Sum(f, S \ {x})

RECURSIVE AscSeq(_)
\* The elements of a finite set of integers in ascending order.
AscSeq(S) == IF S = {} THEN <<>>
             ELSE LET m == CHOOSE x \in S : \A y \in S : x <= y
                  IN <<m>> \o AscSeq(S \ {m})

\* list.index(x): 0-based position of the first occurrence of x.
index(list, x) == (CHOOSE k \in 1..Len(list) :
                      list[k] = x /\ \A j \in 1..(k - 1) : list[j] # x) - 1

\* list.remove(x): the list without the first occurrence of x.
remove(list, x) == LET p == index(list, x) + 1
                   IN [k \in 1..(Len(list) - 1) |->
                          IF k < p THEN list[k] ELSE list[k + 1]]

\* ---------------------------------------------------------------- FPNode
\* FPNode.__init__ with the node identifier taken as the count.
FPNodeCountIsId(item, nodeID, count) ==
    [item |-> item, count |-> nodeID, parent |-> None,
     children |-> [x \in {} |-> None], neighbour |-> None, nodeID |-> nodeID]

\* FPNode.__init__
FPNode(item, nodeID, count) ==
    [item |-> item, count |-> count, parent |-> None,
     children |-> [x \in {} |-> None], neighbour |-> None, nodeID |-> nodeID]

\* searchChildren looking among the children of the root.
searchChildrenOfRoot(t, n, item) ==
    IF item \in DOMAIN t.nodes[0].children THEN t.nodes[0].children[item]
    ELSE None

\* FPNode.searchChildren: the child of node n carrying item, or None.
searchChildren(t, n, item) ==
    IF item \in DOMAIN t.nodes[n].children THEN t.nodes[n].children[item]
    ELSE None

\* incrementCount that leaves the count as it is.
incrementCountLost(t, n) == t

\* FPNode.incrementCount on node n (never the root here: it has no count).
incrementCount(t, n) ==
    [t EXCEPT !.nodes[n].count = @ + 1]

\* FPNode.addChild: attach child c to node n unless n has a child for the item.
addChild(t, n, c) ==
    LET item == t.nodes[c].item
    IN IF item \notin DOMAIN t.nodes[n].children
       THEN [t EXCEPT !.nodes[n].children = @ @@ (item :> c),
                      !.nodes[c].parent = n]
       ELSE t

\* ---------------------------------------------------------------- FPTree
\* FPTree.__init__ counting the root as a node.
FPTreeInitCountsRoot ==
    [nodes |-> (0 :> [item |-> None, count |-> None, parent |-> None,
                      children |-> [x \in {} |-> None], neighbour |-> None,
                      nodeID |-> 0]),
     header |-> [x \in {} |-> None],
     nodesCount |-> 1]

\* FPTree.__init__: only the root, an empty header table, no nodes counted.
FPTreeInit ==
    [nodes |-> (0 :> FPNode(None, 0, None)),
     header |-> [x \in {} |-> None],
     nodesCount |-> 0]

\* FPTree.updateNodesCount
updateNodesCount(t) == [t EXCEPT !.nodesCount = @ + 1]

\* updateHeader that links the node but leaves the tail of the entry in place.
updateHeaderKeepsTail(t, n) ==
    LET item == t.nodes[n].item
    IN IF item \in DOMAIN t.header
       THEN [t EXCEPT !.nodes[t.header[item].tail].neighbour = n]
       ELSE [t EXCEPT !.header = @ @@ (item :> [head |-> n, tail |-> n])]

\* FPTree.updateHeader: append node n to the chain of its item.
updateHeader(t, n) ==
    LET item == t.nodes[n].item
    IN IF item \in DOMAIN t.header
       THEN LET headerOfItem == t.header[item]
            IN [t EXCEPT !.nodes[headerOfItem.tail].neighbour = n,
                         !.header[item] = [head |-> headerOfItem.head, tail |-> n]]
       ELSE [t EXCEPT !.header = @ @@ (item :> [head |-> n, tail |-> n])]

RECURSIVE addItems(_, _, _)
\* The for loop of FPTree.addTransaction, from currNode over the items left.
addItems(t, currNode, items) ==
    IF items = <<>> THEN t
    ELSE LET item == Head(items)
             nextNode == searchChildren(t, currNode, item)
         IN IF nextNode # None
            THEN addItems(incrementCount(t, nextNode), nextNode, Tail(items))
            ELSE LET t1 == updateNodesCount(t)
                     id == t1.nodesCount
                     t2 == [t1 EXCEPT !.nodes = @ @@ (id :> FPNode(item, id, 1))]
                     t3 == addChild(t2, currNode, id)
                     t4 == updateHeader(t3, id)
                 IN addItems(t4, id, Tail(items))

\* FPTree.addTransaction
addTransaction(t, transaction) == addItems(t, 0, transaction)

RECURSIVE chain(_, _)
\* FPTree.nodes: the nodes met from node n along neighbour links.
chain(t, n) == IF n = None THEN <<>>
               ELSE <<n>> \o chain(t, t.nodes[n].neighbour)

\* FPTree.nodes: the occurrence nodes of item; nothing without a header entry.
nodes(t, item) == IF item \in DOMAIN t.header THEN chain(t, t.header[item].head)
                  ELSE <<>>

RECURSIVE collectPathAbove(_, _)
\* collectPath starting at the parent of currNode.
collectPathAbove(t, currNode) ==
    IF currNode = None \/ currNode = 0 THEN <<>>
    ELSE LET parent == t.nodes[currNode].parent
         IN IF parent = None \/ parent = 0 THEN <<>>
            ELSE collectPathAbove(t, parent) \o <<parent>>

RECURSIVE collectPath(_, _)
\* collectPath of FPTree.prefixPaths: the nodes from below the root down to
\* currNode, currNode included.
collectPath(t, currNode) ==
    IF currNode = None \/ currNode = 0 THEN <<>>
    ELSE collectPath(t, t.nodes[currNode].parent) \o <<currNode>>

\* FPTree.prefixPaths(item): the path of every occurrence node of item, in
\* the order of FPTree.nodes.
prefixPaths(t, item) ==
    LET occ == nodes(t, item)
    IN [k \in 1..Len(occ) |-> collectPath(t, occ[k])]

RECURSIVE buildFrom(_, _)
\* The for loop of buildFPTree over the transactions left.
buildFrom(t, trans) ==
    IF trans = <<>> THEN t
    ELSE buildFrom(addTransaction(t, Head(trans)), Tail(trans))

\* buildFPTree(transactions)
buildFPTree(trans) == buildFrom(FPTreeInit, trans)

\* ------------------------------------------------------ filterTransactions
\* itemsDict: every appearance of an item in a transaction counts once.
itemsDict(trans) ==
    LET present == UNION {Range(trans[j]) : j \in 1..Len(trans)}
        occ(j, x) == Cardinality({k \in 1..Len(trans[j]) : trans[j][k] = x})
    IN [x \in present |-> Sum([j \in 1..Len(trans) |-> occ(j, x)], 1..Len(trans))]

RECURSIVE sortedReverse(_, _)
\* sorted(itemsDict.items(), key=itemgetter(1, 0), reverse=True), keys only:
\* the (count, item) pairs in descending order.
sortedReverse(d, S) ==
    IF S = {} THEN <<>>
    ELSE LET m == CHOOSE x \in S : \A y \in S :
                      d[y] < d[x] \/ (d[y] = d[x] /\ y <= x)
         IN <<m>> \o sortedReverse(d, S \ {m})

RECURSIVE sortByIndex(_, _, _)
\* transaction.sort(key=itemsOrder.index): a stable sort, so the items come
\* out grouped by position in order, from position k on.
sortByIndex(transaction, order, k) ==
    IF k > Len(order) THEN <<>>
    ELSE SelectSeq(transaction, LAMBDA v : v = order[k])
         \o sortByIndex(transaction, order, k + 1)

\* cleanTransactions: keep the items of itemsDictOrdered, sort by items order.
cleanTransactions(transaction, order) ==
    sortByIndex(SelectSeq(transaction, LAMBDA v : v \in Range(order)), order, 1)

\* filterTransactions(transactions, minSupp): (transactionsNew, itemsOrder).
\* minSupp is not read: the filtering by support is commented out.
filterTransactions(trans, ms) ==
    LET d == itemsDict(trans)
        order == sortedReverse(d, DOMAIN d)
    IN [transactionsNew |-> [j \in 1..Len(trans) |-> cleanTransactions(trans[j], order)],
        itemsOrder |-> order]

\* ------------------------------------------------- findSupportByPrefixPath
RECURSIVE checkPathWalk(_, _, _, _, _)
\* The while loop of checkPath from ancestor Y_node: TRUE when itemList[i]
\* is met before the root or an item placed earlier in itemsOrder.
checkPathWalk(itemList, i, Y_node, t, order) ==
    IF Y_node = 0 THEN FALSE
    ELSE IF t.nodes[Y_node].item = itemList[i + 1] THEN TRUE
    ELSE IF index(order, t.nodes[Y_node].item) < index(order, itemList[i + 1])
         THEN FALSE
    ELSE checkPathWalk(itemList, i, t.nodes[Y_node].parent, t, order)

RECURSIVE checkPathNoRecursion(_, _, _, _, _)
\* checkPath looking for itemList[i] only.
checkPathNoRecursion(itemList, i, X_node, t, order) ==
    IF i >= 0
    THEN checkPathWalk(itemList, i, t.nodes[X_node].parent, t, order)
    ELSE FALSE

RECURSIVE checkPath(_, _, _, _, _)
\* checkPath: whether an ancestor of X_node carries one of itemList[0..i].
checkPath(itemList, i, X_node, t, order) ==
    IF i >= 0
    THEN IF checkPathWalk(itemList, i, t.nodes[X_node].parent, t, order)
         THEN TRUE
         ELSE checkPath(itemList, i - 1, X_node, t, order)
    ELSE FALSE

RECURSIVE chainSupportAssign(_, _, _, _, _, _)
\* The inner loop with "support = X_node.count" in place of "+=".
chainSupportAssign(newList, k, X_node, t, order, support) ==
    IF X_node = None THEN support
    ELSE chainSupportAssign(newList, k, t.nodes[X_node].neighbour, t, order,
             IF ~checkPath(newList, k - 1, X_node, t, order)
             THEN t.nodes[X_node].count ELSE support)

RECURSIVE chainSupport(_, _, _, _, _, _)
\* The inner while loop of findSupportByPrefixPath for position k, from
\* X_node along the neighbour links.
chainSupport(newList, k, X_node, t, order, support) ==
    IF X_node = None THEN support
    ELSE chainSupport(newList, k, t.nodes[X_node].neighbour, t, order,
             IF ~checkPath(newList, k - 1, X_node, t, order)
             THEN support + t.nodes[X_node].count ELSE support)

RECURSIVE supportFrom(_, _, _, _, _)
\* The for loop of findSupportByPrefixPath from position k on.  The header
\* table is indexed directly: an item without entry raises KeyError.
supportFrom(newList, k, t, order, support) ==
    IF k >= Len(newList) THEN [raised |-> FALSE, support |-> support]
    ELSE IF newList[k + 1] \notin DOMAIN t.header
         THEN [raised |-> TRUE, support |-> 0]
    ELSE supportFrom(newList, k + 1, t, order,
             chainSupport(newList, k, t.header[newList[k + 1]].head, t, order, support))

\* findSupportByPrefixPath(newList, tree, itemsOrder)
findSupportByPrefixPath(newList, t, order) == supportFrom(newList, 0, t, order, 0)

\* -------------------------------------------------------- findSupportByBFS
RECURSIVE bfsChildrenDescends(_, _, _, _)
\* The for loop over childrenNodes without its "continue": a node that
\* carries an item of the itemset is marked and queued like any other.
bfsChildrenDescends(newList, t, childrenNodes, st) ==
    IF childrenNodes = <<>> THEN st
    ELSE LET node == Head(childrenNodes)
             found == t.nodes[node].item \in Range(newList)
         IN bfsChildrenDescends(newList, t, Tail(childrenNodes),
                IF st.visited[node] THEN st
                ELSE [support |-> IF found THEN st.support + t.nodes[node].count
                                  ELSE st.support,
                      visited |-> [st.visited EXCEPT ![node] = TRUE],
                      q |-> Append(st.q, node)])

RECURSIVE bfsChildren(_, _, _, _)
\* The for loop over childrenNodes: a child not visited before either carries
\* an item of the itemset, and then its count is added and the loop continues
\* with the next child, or it is marked visited and put into the queue.
bfsChildren(newList, t, childrenNodes, st) ==
    IF childrenNodes = <<>> THEN st
    ELSE LET node == Head(childrenNodes)
             found == \E k \in 1..Len(newList) : newList[k] = t.nodes[node].item
         IN bfsChildren(newList, t, Tail(childrenNodes),
                IF st.visited[node] THEN st
                ELSE IF found
                THEN [st EXCEPT !.support = @ + t.nodes[node].count]
                ELSE [st EXCEPT !.visited[node] = TRUE,
                                !.q = Append(@, node)])

RECURSIVE bfsLoop(_, _, _)
\* The while loop of findSupportByBFS: take a node from the queue and go
\* through its children (the two sorted() calls discard their results, so the
\* children keep the order in which they were added).
bfsLoop(newList, t, st) ==
    IF st.q = <<>> THEN st.support
    ELSE LET srcNode == Head(st.q)
             ch == t.nodes[srcNode].children
             childrenNodes == AscSeq({ch[x] : x \in DOMAIN ch})
         IN bfsLoop(newList, t,
                    bfsChildren(newList, t, childrenNodes,
                                [st EXCEPT !.q = Tail(@)]))

\* findSupportByBFS(newList, tree)
findSupportByBFS(newList, t) ==
    bfsLoop(newList, t,
            [support |-> 0,
             visited |-> [n \in 0..t.nodesCount |-> n = 0],
             q |-> <<0>>])

\* -------------------------------------------------------- generateItemsets
\* A frame of generateItemsets: its arguments itemsList, end and depth, and
\* the loop variable i, which starts at the argument start.
generateItemsetsCall(itemsList, start, end, depth) ==
    [itemsList |-> itemsList, i |-> start, end |-> end, depth |-> depth]

\* The depth test one level late.
depthReachedLate(depth, end) == depth = end

\* The depth test one level early.
depthReachedEarly(depth, end) == depth <= end + 2

\* "if depth == end + 1: return"
depthReached(depth, end) == depth = end + 1

\* The threshold test with a strict comparison.
frequentStrict(val, ms) == val > ms

\* "if (val >= minSupp)"
frequent(val, ms) == val >= ms

\* The recursive call starting again from the last position of newList.
recursiveCallFromLast(newList, i, end, depth) ==
    [itemsList |-> newList, i |-> Len(newList) - 1, end |-> end,
     depth |-> depth - 1]

\* The recursive call generateItemsets(deepcopy(newList), i - 1, end, depth - 1, ...)
recursiveCall(newList, i, end, depth) ==
    generateItemsetsCall(newList, i - 1, end, depth - 1)

\* The call of findFrequentItemsets:
\* generateItemsets(itemsOrder, len(itemsOrder) - 1, 0, len(itemsOrder), ...)
firstCall(order) == generateItemsetsCall(order, Len(order) - 1, 0, Len(order))

Top == stack[Len(stack)]
Pop == SubSeq(stack, 1, Len(stack) - 1)

\* ------------------------------------------------------------------ inputs
\* A transaction as read from a line of the dataset: items without
\* repetition, written in ascending order; a blank line is the empty list.
\* Transaction number c holds item x when bit x-1 of c is set.
TransactionOf(c) == AscSeq({x \in Items : (c \div (2 ^ (x - 1))) % 2 = 1})

\* The datasets of at most MaxTrans lines, the lines in non-decreasing
\* transaction number (InsertionOrders covers the other line orders).
Datasets ==
    UNION {{[j \in 1..n |-> TransactionOf(c[j])] :
              c \in {d \in [1..n -> 0..(2 ^ NumItems - 1)] :
                        \A j \in 1..(n - 1) : d[j] <= d[j + 1]}} :
           n \in 0..MaxTrans}

\* The itemsets of support queries: sub-lists of the items order followed by
\* the items that occur in no transaction.
SubLists(s) ==
    {[k \in 1..Cardinality(I) |-> s[AscSeq(I)[k]]] : I \in SUBSET (1..Len(s))}

Queries == SubLists(itemsOrder \o AscSeq(Items \ Range(itemsOrder)))

\* The minimum support thresholds passed by the caller.
MinSupps == 1..MaxTrans

NoQuery == [called |-> FALSE, itemset |-> <<>>,
            result |-> [raised |-> FALSE, support |-> 0], bfs |-> 0]

\* ----------------------------------------------------------------- actions
\* The start of a run on a dataset of D.
Start(D) ==
    /\ pc = "filter"
    /\ transactions \in D
    /\ minSupp = None
    /\ transactionsNew = <<>>
    /\ itemsOrder = <<>>
    /\ tree = FPTreeInit
    /\ inserted = 0
    /\ freqItemsets = <<>>
    /\ stack = <<>>
    /\ query = NoQuery

Init == Start(Datasets)

\* transactions, itemsOrder = filterTransactions(transactions, minSupp);
\* then buildFPTree creates the empty tree.
FilterTransactions ==
    /\ pc = "filter"
    /\ \E ms \in MinSupps :
          LET r == filterTransactions(transactions, ms)
          IN /\ transactionsNew' = r.transactionsNew
             /\ itemsOrder' = r.itemsOrder
    /\ tree' = FPTreeInit
    /\ pc' = "build"
    /\ UNCHANGED <<transactions, minSupp, inserted, freqItemsets, stack, query>>

\* One iteration of the for loop of buildFPTree.
AddTransaction ==
    /\ pc = "build"
    /\ inserted < Len(transactionsNew)
    /\ tree' = addTransaction(tree, transactionsNew[inserted + 1])
    /\ inserted' = inserted + 1
    /\ UNCHANGED <<pc, transactions, minSupp, transactionsNew, itemsOrder,
                   freqItemsets, stack, query>>

\* buildFPTree returns; findFrequentItemsets(tree, itemsOrder, minSupp) starts
\* with an empty result list and calls generateItemsets on the items order.
FindFrequentItemsets ==
    /\ pc = "build"
    /\ inserted = Len(transactionsNew)
    /\ minSupp' \in MinSupps
    /\ freqItemsets' = <<>>
    /\ stack' = <<firstCall(itemsOrder)>>
    /\ pc' = "mine"
    /\ UNCHANGED <<transactions, transactionsNew, itemsOrder, tree,
                   inserted, query>>

\* The active generateItemsets call leaves its while loop (i < end) or returns
\* from inside it (depth == end + 1).
GenerateItemsetsReturn ==
    /\ pc = "mine"
    /\ stack # <<>>
    /\ Top.i < Top.end \/ depthReached(Top.depth, Top.end)
    /\ stack' = Pop
    /\ UNCHANGED <<pc, transactions, minSupp, transactionsNew, itemsOrder, tree,
                   inserted, freqItemsets, query>>

\* One iteration of the while loop of the active generateItemsets call: the
\* candidate without item i, its support, the append and the recursive call.
GenerateItemsetsLoop ==
    /\ pc = "mine"
    /\ stack # <<>>
    /\ Top.i >= Top.end
    /\ ~depthReached(Top.depth, Top.end)
    /\ LET f == Top
           newList == remove(f.itemsList, f.itemsList[f.i + 1])
           val == findSupportByPrefixPath(newList, tree, itemsOrder)
           next == [f EXCEPT !.i = f.i - 1]
       IN IF val.raised
          THEN /\ pc' = "raised"
               /\ UNCHANGED <<freqItemsets, stack>>
          ELSE IF frequent(val.support, minSupp)
          THEN /\ freqItemsets' =
                      Append(freqItemsets, [itemset |-> newList, val |-> val.support])
               /\ stack' = Append(Append(Pop, next),
                                  recursiveCall(newList, f.i, f.end, f.depth))
               /\ pc' = pc
          ELSE /\ stack' = Append(Pop, next)
               /\ UNCHANGED <<pc, freqItemsets>>
    /\ UNCHANGED <<transactions, minSupp, transactionsNew, itemsOrder, tree,
                   inserted, query>>

\* The outermost generateItemsets call has returned: findFrequentItemsets
\* returns freqItemsets.
FindFrequentItemsetsReturn ==
    /\ pc = "mine"
    /\ stack = <<>>
    /\ pc' = "done"
    /\ UNCHANGED <<transactions, minSupp, transactionsNew, itemsOrder, tree,
                   inserted, freqItemsets, stack, query>>

\* A caller that builds the tree to ask it for the support of an itemset:
\* findSupportByPrefixPath(q, tree, itemsOrder), cross-checked with
\* findSupportByBFS(q, tree).
Query ==
    /\ pc = "build"
    /\ inserted = Len(transactionsNew)
    /\ pc' = "query"
    /\ \E q \in Queries :
          query' = [called |-> TRUE, itemset |-> q,
                    result |-> findSupportByPrefixPath(q, tree, itemsOrder),
                    bfs |-> findSupportByBFS(q, tree)]
    /\ UNCHANGED <<transactions, minSupp, transactionsNew, itemsOrder, tree,
                   inserted, freqItemsets, stack>>

Next ==
    \/ FilterTransactions
    \/ AddTransaction
    \/ FindFrequentItemsets
    \/ GenerateItemsetsReturn
    \/ GenerateItemsetsLoop
    \/ FindFrequentItemsetsReturn
    \/ Query

Spec == Init /\ [][Next]_vars

\* The transactions in every order of the lines.
InsertionOrders(trans) ==
    {[j \in 1..Len(trans) |-> trans[p[j]]] : p \in Permutations(1..Len(trans))}

\* The dataset [a,b], [a,c], [b,c].
Scenario == <<<<1, 2>>, <<1, 3>>, <<2, 3>>>>

\* The runs on the scenario dataset, its lines in any order.  The program is
\* sequential and runs to completion: a statement that can execute does.
ScenarioInit == Start(InsertionOrders(Scenario))

ScenarioSpec == ScenarioInit /\ [][Next]_vars /\ WF_vars(Next)

\* ------------------------------------------------------------ properties
\* Number of transactions of the dataset holding at least one item of the
\* itemset, by a scan of the raw transaction list.
DirectSupport(itemset) ==
    Cardinality({j \in 1..Len(transactions) :
                    Range(transactions[j]) \cap Range(itemset) # {}})

\* Number of appearances of item x in the raw transaction list.
Frequency(x) ==
    Cardinality({jk \in (1..Len(transactions)) \X (1..NumItems) :
                    /\ jk[2] <= Len(transactions[jk[1]])
                    /\ transactions[jk[1]][jk[2]] = x})

\* buildFPTree has inserted every transaction.
Built == \/ pc = "build" /\ inserted = Len(transactionsNew)
         \/ pc \in {"mine", "done", "query"}

\* C1: a support query for an itemset that is a sub-list of the items order
\* returns, without error, the number of transactions holding at least one
\* item of the itemset; for a singleton, the transactions holding its item.
C1_SupportIsDisjunctive ==
    (pc = "query" /\ query.itemset \in SubLists(itemsOrder)) =>
        /\ ~query.result.raised
        /\ query.result.support = DirectSupport(query.itemset)
        /\ Len(query.itemset) = 1 =>
               query.result.support =
                   Cardinality({j \in 1..Len(transactions) :
                                   query.itemset[1] \in Range(transactions[j])})

\* C1 witness: a query for three items where some transaction holds two of
\* them and another none, answered with the scan's count.
C1_Witness ==
    /\ pc = "query"
    /\ query.itemset \in SubLists(itemsOrder)
    /\ Len(query.itemset) = 3
    /\ \E j \in 1..Len(transactions) :
          Cardinality(Range(transactions[j]) \cap Range(query.itemset)) >= 2
    /\ \E j \in 1..Len(transactions) : transactions[j] = <<>>
    /\ query.result.support = 2
    /\ query.result.support = DirectSupport(query.itemset)

\* The itemsets obtained from the items order by removing one or more items
\* and leaving at least one.
Candidates == SubLists(itemsOrder) \ {<<>>, itemsOrder}

\* The result list holds itemset S with support v.
Recorded(S, v) ==
    \E e \in 1..Len(freqItemsets) : freqItemsets[e] = [itemset |-> S, val |-> v]

C3_CanonicalOrder ==
    pc # "filter" =>
        /\ \A a, b \in 1..Len(itemsOrder) :
              a < b =>
                 \/ Frequency(itemsOrder[a]) > Frequency(itemsOrder[b])
                 \/ /\ Frequency(itemsOrder[a]) = Frequency(itemsOrder[b])
                    /\ itemsOrder[a] < itemsOrder[b]
        /\ transactions = Scenario => itemsOrder = <<1, 2, 3>>

\* C4: the support of a canonically ordered itemset B is at least the support
\* of every itemset A obtained from B by removing items.
C4_Monotone ==
    (pc = "query" /\ query.itemset \in SubLists(itemsOrder)) =>
        \A A \in SubLists(query.itemset) :
            LET r == findSupportByPrefixPath(A, tree, itemsOrder)
            IN ~r.raised /\ ~query.result.raised
               /\ r.support <= query.result.support

\* C4 witness: a queried itemset B of two items found together in a
\* transaction, one of which alone has a strictly smaller support.
C4_Witness ==
    /\ pc = "query"
    /\ query.itemset \in SubLists(itemsOrder)
    /\ Len(query.itemset) = 2
    /\ \E j \in 1..Len(transactions) :
          Range(query.itemset) \subseteq Range(transactions[j])
    /\ \E A \in SubLists(query.itemset) :
          /\ Len(A) = 1
          /\ findSupportByPrefixPath(A, tree, itemsOrder).support
                < query.result.support

\* Sum of the counts of the root's children.
RootChildrenCount(t) ==
    LET ch == t.nodes[0].children
    IN Sum([x \in DOMAIN ch |-> t.nodes[ch[x]].count], DOMAIN ch)

\* C5 (as claimed): once every transaction is inserted, the counts of the
\* root's children add up to the number of transactions inserted.
C5_RootCountsAllTransactions ==
    Built => RootChildrenCount(tree) = Len(transactionsNew)

\* C5 (amended): at every point of the construction the counts of the root's
\* children add up to the number of inserted transactions that hold at least
\* one item.
C5_RootCountsNonEmpty ==
    pc # "filter" =>
        RootChildrenCount(tree) =
            Cardinality({j \in 1..inserted : transactionsNew[j] # <<>>})

\* C5 witness: a built tree of three transactions, one without items and two
\* sharing their first item.
C5_Witness ==
    /\ Built
    /\ Len(transactionsNew) = 3
    /\ \E j \in 1..3 : transactionsNew[j] = <<>>
    /\ \E x \in DOMAIN tree.nodes[0].children :
          tree.nodes[tree.nodes[0].children[x]].count = 2
    /\ RootChildrenCount(tree) = 2

\* The root-to-node item paths of a tree, each with the count of its node.
PathCounts(t) ==
    {LET path == collectPath(t, n)
     IN <<[k \in 1..Len(path) |-> t.nodes[path[k]].item], t.nodes[n].count>> :
        n \in DOMAIN t.nodes \ {0}}

\* The support findSupportByPrefixPath gives on tree t for every sub-list of
\* the items order.
Supports(t) ==
    [S \in SubLists(itemsOrder) |-> findSupportByPrefixPath(S, t, itemsOrder)]

\* C6: the tree built from the canonically ordered transactions has the same
\* item paths with the same counts, and gives the same support for every
\* canonically ordered itemset, as the tree built from the same transactions
\* inserted in any other order.
C6_InsertionOrder ==
    (pc = "build" /\ inserted = Len(transactionsNew)) =>
        LET paths == PathCounts(tree)
            supports == Supports(tree)
        IN \A perm \in InsertionOrders(transactionsNew) :
               LET t2 == buildFPTree(perm)
               IN PathCounts(t2) = paths /\ Supports(t2) = supports

\* C6 witness: a built tree of three transactions and another insertion order
\* that gives a different tree (other node identifiers) with the same paths.
C6_Witness ==
    /\ pc = "build"
    /\ inserted = 3
    /\ Len(transactionsNew) = 3
    /\ \E perm \in InsertionOrders(transactionsNew) :
          /\ buildFPTree(perm) # tree
          /\ PathCounts(buildFPTree(perm)) = PathCounts(tree)
          /\ \E pcnt \in PathCounts(tree) : pcnt[2] = 2

\* The result list of the scenario: the three pairs with support 3 and the
\* three singletons with support 2.
ScenarioResult ==
    /\ \A P \in {{2, 3}, {1, 3}, {1, 2}} :
          \E e \in 1..Len(freqItemsets) :
             Range(freqItemsets[e].itemset) = P /\ freqItemsets[e].val = 3
    /\ \A x \in {1, 2, 3} : Recorded(<<x>>, 2)

C8_NoDuplicates ==
    \A a, b \in 1..Len(freqItemsets) :
        a # b => freqItemsets[a].itemset # freqItemsets[b].itemset

\* C8 witness: a finished run that recorded every candidate of three items.
C8_Witness ==
    /\ pc = "done"
    /\ Len(itemsOrder) = 3
    /\ Len(freqItemsets) = 6
    /\ \A S \in Candidates : \E e \in 1..6 : freqItemsets[e].itemset = S

\* C9 (as claimed): a support query whose itemset holds an item without header
\* entry returns, without error, the support of the remaining items.
C9_MissingItemIgnored ==
    (pc = "query" /\ ~(Range(query.itemset) \subseteq DOMAIN tree.header)) =>
        /\ ~query.result.raised
        /\ query.result.support =
              findSupportByPrefixPath(
                  SelectSeq(query.itemset, LAMBDA x : x \in DOMAIN tree.header),
                  tree, itemsOrder).support

\* C10: an empty dataset runs without error: filterTransactions returns no
\* items order and no transactions, the tree is the root alone (no children,
\* empty header table, nodesCount 0), and the result list is empty.
C10_EmptyDataset ==
    transactions = <<>> =>
        /\ pc # "raised"
        /\ pc # "filter" => itemsOrder = <<>> /\ transactionsNew = <<>>
        /\ pc # "filter" =>
              /\ DOMAIN tree.nodes = {0}
              /\ DOMAIN tree.nodes[0].children = {}
              /\ DOMAIN tree.header = {}
              /\ tree.nodesCount = 0
        /\ pc = "done" => freqItemsets = <<>>

\* C10 witness: the finished run on the empty dataset.
C10_Witness ==
    /\ transactions = <<>>
    /\ pc = "done"
    /\ inserted = 0
    /\ stack = <<>>

RECURSIVE AncestorsOf(_, _)
\* The ancestors of node n below the root, from the root's child down to the
\* parent of n, by the parent references.
AncestorsOf(t, n) ==
    LET parent == t.nodes[n].parent
    IN IF parent = 0 \/ parent = None THEN <<>>
       ELSE AncestorsOf(t, parent) \o <<parent>>

\* C11 (as claimed): the path prefixPaths gives for an occurrence node is the
\* sequence of the node's ancestors in root-to-node order, without the node.
C11_PathExcludesNode ==
    pc = "build" =>
        \A item \in DOMAIN tree.header :
            \A k \in 1..Len(nodes(tree, item)) :
                LET n == nodes(tree, item)[k]
                    path == prefixPaths(tree, item)[k]
                IN n \notin Range(path) /\ path = AncestorsOf(tree, n)

\* C11 (amended): the path prefixPaths gives for an occurrence node is the
\* sequence of the node's ancestors below the root in root-to-node order,
\* followed by the occurrence node itself.
C11_PathEndsWithNode ==
    pc = "build" =>
        \A item \in DOMAIN tree.header :
            /\ Len(prefixPaths(tree, item)) = Len(nodes(tree, item))
            /\ \A k \in 1..Len(nodes(tree, item)) :
                  LET n == nodes(tree, item)[k]
                      path == prefixPaths(tree, item)[k]
                  IN /\ path = AncestorsOf(tree, n) \o <<n>>
                     /\ tree.nodes[path[1]].parent = 0
                     /\ 0 \notin Range(path)
                     /\ \A j \in 1..(Len(path) - 1) :
                           tree.nodes[path[j + 1]].parent = path[j]

\* C11 witness: an item with two occurrence nodes, one of them two levels
\* below the root, whose path holds its ancestor and then the node.
C11_Witness ==
    /\ pc = "build"
    /\ \E item \in DOMAIN tree.header :
          /\ Len(nodes(tree, item)) = 2
          /\ \E k \in 1..2 :
                LET n == nodes(tree, item)[k]
                    path == prefixPaths(tree, item)[k]
                IN /\ Len(path) = 2
                   /\ path[2] = n
                   /\ path[1] = tree.nodes[n].parent

\* The nodes of tree t that carry item.
Carrying(t, item) == {n \in DOMAIN t.nodes \ {0} : t.nodes[n].item = item}

\* C12: after any number of addTransaction calls the header table has an
\* entry for exactly the items carried by a node, and following the neighbour
\* links from an entry's head visits every node carrying the item exactly
\* once, in the order of creation (ascending nodeID), ending at the entry's
\* tail, whose neighbour is None.
C12_HeaderChains ==
    pc = "build" =>
        /\ DOMAIN tree.header = {tree.nodes[n].item : n \in DOMAIN tree.nodes \ {0}}
        /\ \A item \in DOMAIN tree.header :
              LET occ == nodes(tree, item)
              IN /\ occ = AscSeq(Carrying(tree, item))
                 /\ occ[1] = tree.header[item].head
                 /\ occ[Len(occ)] = tree.header[item].tail
                 /\ tree.nodes[tree.header[item].tail].neighbour = None

\* C12 witness: a tree under construction where an item has two occurrence
\* nodes, created with another node in between, and a separate head and tail.
C12_Witness ==
    /\ pc = "build"
    /\ \E item \in DOMAIN tree.header :
          /\ Len(nodes(tree, item)) = 2
          /\ tree.header[item].head # tree.header[item].tail
          /\ tree.header[item].tail > tree.header[item].head + 1
          /\ tree.nodes[tree.header[item].head].neighbour = tree.header[item].tail

\* The items on the way from the root to node n, the item of n included.
ItemPath(t, n) ==
    LET path == AncestorsOf(t, n) \o <<n>>
    IN [k \in 1..Len(path) |-> t.nodes[path[k]].item]

\* Sequence p is a prefix of sequence s.
IsPrefix(p, s) == Len(p) <= Len(s) /\ SubSeq(s, 1, Len(p)) = p

\* The nodes whose parent reference is node n.
ChildrenOf(t, n) == {c \in DOMAIN t.nodes \ {0} : t.nodes[c].parent = n}

\* C13: after any number of addTransaction calls the count of every node
\* below the root is the number of inserted transactions that start with the
\* item path from the root to the node; so a node's count is at least the sum
\* of its children's counts, and no two children of a node carry the same item.
C13_CountsArePrefixCounts ==
    pc = "build" =>
        /\ \A n \in DOMAIN tree.nodes \ {0} :
              /\ tree.nodes[n].count =
                    Cardinality({j \in 1..inserted :
                                    IsPrefix(ItemPath(tree, n), transactionsNew[j])})
              /\ tree.nodes[n].count >=
                    Sum([c \in ChildrenOf(tree, n) |-> tree.nodes[c].count],
                        ChildrenOf(tree, n))
        /\ \A n \in DOMAIN tree.nodes :
              /\ \A c, d \in ChildrenOf(tree, n) :
                    c # d => tree.nodes[c].item # tree.nodes[d].item
              /\ ChildrenOf(tree, n) =
                    {tree.nodes[n].children[x] : x \in DOMAIN tree.nodes[n].children}

\* C13 witness: a node of count 2 with a single child of count 1, after three
\* insertions: one transaction stops at the node or goes another way.
C13_Witness ==
    /\ pc = "build"
    /\ inserted = 3
    /\ \E n \in DOMAIN tree.nodes \ {0} :
          /\ tree.nodes[n].count = 2
          /\ \E c \in ChildrenOf(tree, n) :
                /\ ChildrenOf(tree, n) = {c}
                /\ tree.nodes[c].count = 1

\* C14 (as claimed): among the datasets a run can start with there is one,
\* with a sub-list of its items order, for which findSupportByBFS on the built
\* tree returns another value than the number of transactions holding an item
\* of the itemset.
C14_BFSDoubleCounts ==
    pc = "filter" =>
    \E D \in Datasets :
        LET r == filterTransactions(D, 1)
            t == buildFPTree(r.transactionsNew)
        IN \E S \in SubLists(r.itemsOrder) :
              findSupportByBFS(S, t) #
                  Cardinality({j \in 1..Len(D) : Range(D[j]) \cap Range(S) # {}})

\* C14 (amended): for every dataset and every sub-list of the items order,
\* findSupportByBFS returns the value findSupportByPrefixPath returns, the
\* number of transactions holding at least one item of the itemset: a node
\* that carries an item of the itemset is counted and not descended into.
C14_BFSAgrees ==
    (pc = "query" /\ query.itemset \in SubLists(itemsOrder)) =>
        /\ query.bfs = query.result.support
        /\ query.bfs = DirectSupport(query.itemset)

\* C14 witness: a query whose itemset has two items on one branch of the
\* tree, one node below the other, answered alike by both calculators.
C14_Witness ==
    /\ pc = "query"
    /\ query.itemset \in SubLists(itemsOrder)
    /\ \E n \in DOMAIN tree.nodes \ {0} :
          /\ tree.nodes[n].item \in Range(query.itemset)
          /\ \E a \in Range(AncestorsOf(tree, n)) :
                tree.nodes[a].item \in Range(query.itemset)
    /\ query.bfs >= 2
    /\ query.bfs = query.result.support

\* An upper bound of the steps left to a generateItemsets call whose loop
\* variable is i: its return, and for each position left an iteration and a
\* recursive call from the position below.
StepsLeft(i) == 2 ^ (i + 2) - 1

\* The steps left to the active generateItemsets calls together.
Measure ==
    Sum([k \in 1..Len(stack) |-> StepsLeft(stack[k].i)], 1..Len(stack))

\* The while loop of the active generateItemsets call is about to compute the
\* support of a candidate.
AboutToComputeSupport ==
    /\ pc = "mine"
    /\ stack # <<>>
    /\ Top.i >= Top.end
    /\ ~depthReached(Top.depth, Top.end)

\* What C15 says of the calls, but for the bound on their nesting: depth is
\* the length of the itemset, the support of the empty itemset is never
\* computed, the result never holds the empty itemset, nothing is raised and
\* itemsList[i] exists whenever the loop body reads it.
DepthDiscipline ==
    /\ pc # "raised"
    /\ \A k \in 1..Len(stack) :
          /\ stack[k].depth = Len(stack[k].itemsList)
          /\ stack[k].end = 0
          /\ stack[k].i >= -1
    /\ AboutToComputeSupport =>
          /\ Len(Top.itemsList) >= 2
          /\ Top.i < Len(Top.itemsList)
    /\ \A e \in 1..Len(freqItemsets) : freqItemsets[e].itemset # <<>>

\* Every step of the mining is a step of the active call that lowers Measure,
\* or the return of findFrequentItemsets once no call is left.
MiningStep ==
    pc = "mine" =>
        \/ pc' = "mine" /\ Measure' < Measure
        \/ pc' = "done" /\ stack = <<>>

\* C15 (as claimed), its safety part: the nesting depth of generateItemsets
\* never exceeds the number of distinct items, depth is the length of the
\* current itemset, and the empty itemset is neither evaluated nor recorded.
C15_NestingWithinItems ==
    /\ Len(stack) <= Len(itemsOrder)
    /\ DepthDiscipline

\* C15 (amended): findFrequentItemsets terminates (nothing is raised, the loop
\* indexes inside its list, and every step lowers Measure, a natural number);
\* the nesting depth of generateItemsets never exceeds the number of distinct
\* items, or 1 (the outermost call) when the dataset has no items; depth is
\* the length of the current itemset; the empty itemset is neither evaluated
\* nor recorded.
C15_Terminates ==
    /\ [](/\ Len(stack) <= IF itemsOrder = <<>> THEN 1 ELSE Len(itemsOrder)
          /\ DepthDiscipline
          /\ Measure >= 0)
    /\ [][MiningStep]_vars

\* C15 witness: as many nested calls as there are items, the innermost with
\* depth 1 and about to return at "depth == end + 1".
C15_Witness ==
    /\ pc = "mine"
    /\ Len(itemsOrder) = 3
    /\ Len(stack) = 3
    /\ Top.depth = 1
    /\ Top.i >= Top.end
    /\ Len(freqItemsets) >= 2

====
